---- MODULE Spec2Model ----
(***************************************************************************)
(* A model of src/src/Ground.ts: the Ground grid mesh (constructor,        *)
(* reshapeGround, computeH, convertRowColToIndex) and the Billboard ribbon *)
(* (constructor, addNewPoint and the four projectTo* operations).          *)
(*                                                                         *)
(* Numbers.  The TypeScript code computes in IEEE-754 doubles, and so does *)
(* the model: every `number` of the code is a Dbl below, and +, -, *, /    *)
(* and Math.sqrt are the correctly rounded operations (round to nearest,   *)
(* ties to even) with NaN, the infinities and the signed zeros.  Exponents *)
(* are unbounded: no value of the model comes near overflow or the         *)
(* subnormal range.  Math.pow(x, 2) is taken to be x * x.                  *)
(*                                                                         *)
(* A value that an expression of the code uses more than once is computed  *)
(* once here too: it is handed on as the argument of a function, or bound  *)
(* by \E over a one-element set.                                           *)
(***************************************************************************)
EXTENDS Integers, Sequences, FiniteSets, TLC

-----------------------------------------------------------------------------
(* Natural numbers of any size: the digits in base 2^15, least significant *)
(* first, without leading zeros; <<>> is 0.  The operations are functions, *)
(* and each digit of a result is given by a formula of its own: the carry  *)
(* into a digit is written out, not passed along.                          *)

Base == 2 ^ 15

Big == Seq(Nat)

Max(a, b) == IF a >= b THEN a ELSE b

Min(a, b) == IF a <= b THEN a ELSE b

Abs(x) == IF x < 0 THEN 0 - x ELSE x

Digit(a, i) == IF 1 <= i /\ i <= Len(a) THEN a[i] ELSE 0

\* The sequence f[1], .., f[n] of a function f on 1 .. n.
Digits(f) == <<>> \o f

\* a without its leading zeros.
BigTrim[a \in Big] ==
    SubSeq(a, 1, CHOOSE n \in 0 .. Len(a) :
                     (n = 0 \/ a[n] # 0) /\ \A j \in n + 1 .. Len(a) : a[j] = 0)

\* The number whose digit i is s[i], for s[i] < 2 * Base: a carry enters
\* digit i when a digit below it overflows and every digit between is
\* Base - 1.
Carry[s \in Big] ==
    BigTrim[Digits([i \in 1 .. Len(s) + 1 |->
        (Digit(s, i) + (IF \E j \in 1 .. i - 1 :
                               s[j] >= Base /\ \A n \in j + 1 .. i - 1 : s[n] = Base - 1
                        THEN 1 ELSE 0)) % Base])]

\* The same for s[i] < Base * Base: the high half of a digit goes to the
\* next one first.
Split[s \in Big] ==
    Carry[Digits([i \in 1 .. Len(s) + 1 |->
        (Digit(s, i) % Base) + (Digit(s, i - 1) \div Base)])]

\* a + b.
BigAdd[a \in Big, b \in Big] ==
    Carry[Digits([i \in 1 .. Max(Len(a), Len(b)) |-> Digit(a, i) + Digit(b, i)])]

\* Whether a borrow enters digit i of a - b: a digit difference below it is
\* negative and every digit difference between is 0.
Borrow(a, b, i) ==
    \E j \in 1 .. i - 1 :
        a[j] < Digit(b, j) /\ \A n \in j + 1 .. i - 1 : a[n] = Digit(b, n)

\* a - b for a >= b.
BigSub[a \in Big, b \in Big] ==
    BigTrim[Digits([i \in 1 .. Len(a) |->
        (a[i] - Digit(b, i) - (IF Borrow(a, b, i) THEN 1 ELSE 0) + Base) % Base])]

\* a < b.
BigLess[a \in Big, b \in Big] ==
    IF Len(a) # Len(b) THEN Len(a) < Len(b)
    ELSE \E i \in 1 .. Len(a) : a[i] < b[i] /\ \A j \in i + 1 .. Len(a) : a[j] = b[j]

\* a * d for a digit d.
BigMulSmall[a \in Big, d \in Nat] == Split[Digits([i \in 1 .. Len(a) |-> a[i] * d])]

\* The low half of the product of digit i of a and the digit of b that meets
\* it in column n, and the high half of the one of column n - 1.
Halves(a, b, i, n) ==
    ((Digit(a, i) * Digit(b, n + 1 - i)) % Base) + ((Digit(a, i) * Digit(b, n - i)) \div Base)

\* a * b for a of at most four digits.
BigMul[a \in Big, b \in Big] ==
    Split[Digits([n \in 1 .. Len(a) + Len(b) |->
        Halves(a, b, 1, n) + Halves(a, b, 2, n) + Halves(a, b, 3, n) + Halves(a, b, 4, n)])]

\* The number of bits of a digit.
IntBitLen(x) == CHOOSE n \in 0 .. 15 : x < 2 ^ n /\ (n = 0 \/ 2 ^ (n - 1) <= x)

BigBitLen(a) == IF a = <<>> THEN 0 ELSE 15 * (Len(a) - 1) + IntBitLen(a[Len(a)])

\* a * 2^n.
BigShl[a \in Big, n \in Nat] ==
    BigTrim[Digits([i \in 1 .. Len(a) + (n \div 15) + 1 |->
        (Digit(a, i - (n \div 15)) % 2 ^ (15 - (n % 15))) * 2 ^ (n % 15)
            + (Digit(a, i - (n \div 15) - 1) \div 2 ^ (15 - (n % 15)))])]

\* floor(a / 2^n).
BigShr[a \in Big, n \in Nat] ==
    BigTrim[Digits([i \in 1 .. Len(a) - (n \div 15) |->
        (a[i + (n \div 15)] \div 2 ^ (n % 15))
            + (Digit(a, i + (n \div 15) + 1) % 2 ^ (n % 15)) * 2 ^ (15 - (n % 15))])]

\* Bit i of a, bit 0 the least significant.
BigBit(a, i) == (Digit(a, (i \div 15) + 1) \div (2 ^ (i % 15))) % 2

\* Whether any of the n lowest bits of a is set.
BigLowBits(a, n) ==
    \/ \E i \in 1 .. Min(n \div 15, Len(a)) : a[i] # 0
    \/ Digit(a, (n \div 15) + 1) % (2 ^ (n % 15)) # 0

DivState == [q : Big, r : Big]

\* The next state of the long division by d, when the remainder with the
\* next digit brought down is r, from an estimate q that is not below the
\* quotient digit and p = d * q: qs are the quotient digits found before.
FixDigit[r \in Big, d \in Big, q \in Nat, p \in Big, qs \in Big] ==
    IF BigLess[r, p] THEN FixDigit[r, d, q - 1, BigSub[p, d], qs]
    ELSE [q |-> <<q>> \o qs, r |-> BigSub[r, p]]

\* The estimate of the quotient digit of r by d, for r < d * Base and d with
\* a top digit of at least Base / 2: the quotient of the top digits, which is
\* the digit or up to 2 above it.
Estimate(r, d) ==
    Min(Base - 1, (Digit(r, Len(d) + 1) * Base + Digit(r, Len(d))) \div d[Len(d)])

BigDivStep[r \in Big, d \in Big, qs \in Big] ==
    FixDigit[r, d, Estimate(r, d), BigMulSmall[d, Estimate(r, d)], qs]

\* Long division of a by d: st.r is the remainder so far and st.q the
\* quotient digits found, and the digits i, .., 1 of a are still to be
\* brought down.
BigDivFrom[a \in Big, d \in Big, i \in Nat, st \in DivState] ==
    IF i = 0 THEN [q |-> BigTrim[st.q], r |-> st.r]
    ELSE BigDivFrom[a, d, i - 1, BigDivStep[BigTrim[<<a[i]>> \o st.r], d, st.q]]

\* Quotient and remainder of a by d for d with a top digit of at least
\* Base / 2.
BigDivNormal[a \in Big, d \in Big] ==
    IF Len(a) < Len(d) THEN [q |-> <<>>, r |-> a]
    ELSE BigDivFrom[a, d, Len(a) - Len(d) + 1,
                    [q |-> <<>>, r |-> SubSeq(a, Len(a) - Len(d) + 2, Len(a))]]

\* The quotient q of a by d # 0, and a remainder r that is <<>> exactly when
\* d divides a (the remainder of the operands scaled to make d normal).
BigDiv[a \in Big, d \in Big] ==
    BigDivNormal[BigShl[a, 15 - IntBitLen(d[Len(d)])], BigShl[d, 15 - IntBitLen(d[Len(d)])]]

\* floor((y + floor(n / y)) / 2), the step of Newton's iteration for the
\* square root of n.
Newton(y, n) == BigShr[BigAdd[y, BigDiv[n, y].q], 1]

\* floor(sqrt(n)): the iteration from y above the root, which descends until
\* it stops at the root; x is the iterate before y.
BigSqrtFrom[x \in Big, y \in Big, n \in Big] ==
    IF BigLess[y, x] THEN BigSqrtFrom[y, Newton(y, n), n] ELSE x

\* 2^52, 2^55 and 2^110.
Pow52 == <<0, 0, 0, 128>>

Pow55 == <<0, 0, 0, 1024>>

Pow110 == <<0, 0, 0, 0, 0, 0, 0, 32>>

\* floor(sqrt(n)) for n < 2^110.
BigSqrt[n \in Big] == BigSqrtFrom[Pow110, Pow55, n]

-----------------------------------------------------------------------------
(* IEEE-754 doubles.  A finite nonzero double is (-1)^neg * m * 2^e with m *)
(* of exactly 53 bits; a zero has m = <<>>, e = 0 and its sign.            *)

Dbl == [k : {"fin", "inf", "nan"}, neg : BOOLEAN, m : Big, e : Int]

DblNaN == [k |-> "nan", neg |-> FALSE, m |-> <<>>, e |-> 0]

DblInf(neg) == [k |-> "inf", neg |-> neg, m |-> <<>>, e |-> 0]

DblZero(neg) == [k |-> "fin", neg |-> neg, m |-> <<>>, e |-> 0]

DblFin(neg, m, e) == [k |-> "fin", neg |-> neg, m |-> m, e |-> e]

IsNaN(a) == a.k = "nan"

IsZero(a) == a.k = "fin" /\ a.m = <<>>

\* Whether m * 2^(-sh), with a fraction s added where 0 < s < 1 if sticky and
\* s = 0 otherwise, rounds up to the next integer: to nearest, ties to even.
RoundsUp(m, sh, sticky) ==
    BigBit(m, sh - 1) = 1 /\ (sticky \/ BigLowBits(m, sh - 1) \/ BigBit(m, sh) = 1)

\* q + 1 if up and q otherwise, for q of 53 bits: the digits of 2^53 come
\* out as <<0, 0, 0, 256>>.
BigInc[q \in Big, up \in BOOLEAN] ==
    Digits([i \in 1 .. 4 |->
        IF up /\ \A j \in 1 .. i - 1 : q[j] = Base - 1
        THEN (IF i = 4 THEN q[i] + 1 ELSE (q[i] + 1) % Base)
        ELSE q[i]])

\* The double (-1)^neg * q * 2^e for q of 53 bits, or q = 2^53.
DblOf[neg \in BOOLEAN, q \in Big, e \in Int] ==
    IF Len(q) = 4 /\ q[4] = 256 THEN DblFin(neg, Pow52, e + 1) ELSE DblFin(neg, q, e)

\* The double nearest to (-1)^neg * (m + s) * 2^e for m # 0 of sh + 53 bits.
DblRoundAt[neg \in BOOLEAN, m \in Big, e \in Int, sticky \in BOOLEAN, sh \in Int] ==
    IF sh <= 0 THEN DblFin(neg, BigShl[m, 0 - sh], e + sh)
    ELSE DblOf[neg, BigInc[BigShr[m, sh], RoundsUp(m, sh, sticky)], e + sh]

\* The double nearest to (-1)^neg * (m + s) * 2^e, ties to even, where
\* 0 < s < 1 if sticky and s = 0 otherwise; m has at least 55 bits if sticky.
DblRound[neg \in BOOLEAN, m \in Big, e \in Int, sticky \in BOOLEAN] ==
    IF m = <<>> THEN DblZero(neg) ELSE DblRoundAt[neg, m, e, sticky, BigBitLen(m) - 53]

\* The double of an integer below 2^15 in absolute value.
DblInt[n \in 1 - Base .. Base - 1] ==
    IF n = 0 THEN DblZero(FALSE)
    ELSE DblFin(n < 0, BigShl[<<Abs(n)>>, 53 - IntBitLen(Abs(n))], IntBitLen(Abs(n)) - 53)

\* -a.
DblNeg[a \in Dbl] == IF a.k = "nan" THEN a ELSE [a EXCEPT !.neg = ~a.neg]

\* Math.abs(a).
DblAbs[a \in Dbl] == [a EXCEPT !.neg = FALSE]

\* (-1)^xn * x + (-1)^yn * y for the integers x and y, not both 0, scaled by
\* 2^e: an exact zero is +0.
AddAligned[xn \in BOOLEAN, x \in Big, yn \in BOOLEAN, y \in Big, e \in Int] ==
    CASE xn = yn -> DblRound[xn, BigAdd[x, y], e, FALSE]
      [] xn # yn /\ x = y -> DblZero(FALSE)
      [] xn # yn /\ x # y ->
            DblRound[IF BigLess[x, y] THEN yn ELSE xn,
                     BigSub[IF BigLess[x, y] THEN y ELSE x, IF BigLess[x, y] THEN x ELSE y],
                     e, FALSE]

\* h + l for finite h and l that are not 0, h.e >= l.e.
AddOrdered[h \in Dbl, l \in Dbl] == AddAligned[h.neg, BigShl[h.m, h.e - l.e], l.neg, l.m, l.e]

\* a + b.
DblAdd[a \in Dbl, b \in Dbl] ==
    CASE a.k = "nan" \/ b.k = "nan" -> DblNaN
      [] a.k = "inf" /\ b.k = "inf" -> IF a.neg = b.neg THEN a ELSE DblNaN
      [] a.k = "inf" /\ b.k = "fin" -> a
      [] a.k = "fin" /\ b.k = "inf" -> b
      [] a.k = "fin" /\ b.k = "fin" /\ a.m = <<>> /\ b.m = <<>> -> DblZero(a.neg /\ b.neg)
      [] a.k = "fin" /\ b.k = "fin" /\ a.m = <<>> /\ b.m # <<>> -> b
      [] a.k = "fin" /\ b.k = "fin" /\ a.m # <<>> /\ b.m = <<>> -> a
      [] a.k = "fin" /\ b.k = "fin" /\ a.m # <<>> /\ b.m # <<>> ->
            AddOrdered[IF a.e >= b.e THEN a ELSE b, IF a.e >= b.e THEN b ELSE a]

\* a - b.
DblSub[a \in Dbl, b \in Dbl] == DblAdd[a, DblNeg[b]]

\* a * b.
DblMul[a \in Dbl, b \in Dbl] ==
    CASE a.k = "nan" \/ b.k = "nan" -> DblNaN
      [] a.k # "nan" /\ b.k # "nan" /\ (a.k = "inf" \/ b.k = "inf") ->
            IF IsZero(a) \/ IsZero(b) THEN DblNaN ELSE DblInf(a.neg # b.neg)
      [] a.k = "fin" /\ b.k = "fin" ->
            DblRound[a.neg # b.neg, BigMul[a.m, b.m], a.e + b.e, FALSE]

\* The double nearest to (-1)^neg * (x.q + s) * 2^e, where 0 < s < 1 if x.r
\* is not 0.
DblOfDiv[neg \in BOOLEAN, x \in DivState, e \in Int] == DblRound[neg, x.q, e, x.r # <<>>]

\* a / b.
DblDiv[a \in Dbl, b \in Dbl] ==
    CASE a.k = "nan" \/ b.k = "nan" -> DblNaN
      [] a.k = "inf" /\ b.k = "inf" -> DblNaN
      [] a.k = "inf" /\ b.k = "fin" -> DblInf(a.neg # b.neg)
      [] a.k = "fin" /\ b.k = "inf" -> DblZero(a.neg # b.neg)
      [] a.k = "fin" /\ b.k = "fin" /\ b.m = <<>> ->
            IF a.m = <<>> THEN DblNaN ELSE DblInf(a.neg # b.neg)
      [] a.k = "fin" /\ b.k = "fin" /\ b.m # <<>> /\ a.m = <<>> -> DblZero(a.neg # b.neg)
      [] a.k = "fin" /\ b.k = "fin" /\ b.m # <<>> /\ a.m # <<>> ->
            DblOfDiv[a.neg # b.neg, BigDiv[BigShl[a.m, 56], b.m], a.e - b.e - 56]

\* The double nearest to sqrt(n) * 2^e from s = floor(sqrt(n)).
DblOfSqrt[s \in Big, n \in Big, e \in Int] == DblRound[FALSE, s, e, BigMul[s, s] # n]

\* The square root of n * 2^e for even e.
SqrtEven[n \in Big, e \in Int] == DblOfSqrt[BigSqrt[n], n, e \div 2]

\* Math.sqrt(a).
DblSqrt[a \in Dbl] ==
    CASE a.k = "nan" -> DblNaN
      [] a.k = "fin" /\ a.m = <<>> -> a
      [] a.k # "nan" /\ ~IsZero(a) /\ a.neg -> DblNaN
      [] a.k = "inf" /\ ~a.neg -> a
      [] a.k = "fin" /\ a.m # <<>> /\ ~a.neg ->
            SqrtEven[BigShl[a.m, 56 + (a.e % 2)], a.e - 56 - (a.e % 2)]

\* a < b for finite or infinite a and b of the same sign, not both zero;
\* mantissas have 53 bits, so the exponents decide first.
LessMagnitude(a, b) ==
    IF a.k = "inf" THEN FALSE
    ELSE IF b.k = "inf" THEN TRUE
    ELSE IF IsZero(a) THEN TRUE
    ELSE IF IsZero(b) THEN FALSE
    ELSE IF a.e # b.e THEN a.e < b.e
    ELSE BigLess[a.m, b.m]

\* a < b.
DblLess[a \in Dbl, b \in Dbl] ==
    IF a.k = "nan" \/ b.k = "nan" THEN FALSE
    ELSE IF IsZero(a) /\ IsZero(b) THEN FALSE
    ELSE IF a.neg # b.neg THEN a.neg
    ELSE IF a = b THEN FALSE
    ELSE a.neg # LessMagnitude(a, b)

\* a == b.
DblEq[a \in Dbl, b \in Dbl] ==
    a.k # "nan" /\ b.k # "nan" /\ (a = b \/ (IsZero(a) /\ IsZero(b)))

\* a <= b.
DblLeq[a \in Dbl, b \in Dbl] == DblLess[a, b] \/ DblEq[a, b]

\* Math.max(0, a).
DblMax0[a \in Dbl] ==
    IF a.k = "nan" THEN a ELSE IF DblLess[DblZero(FALSE), a] THEN a ELSE DblZero(FALSE)

\* a || 1: 0 and NaN are falsy.
DblOr1[a \in Dbl] == IF IsZero(a) \/ IsNaN(a) THEN DblInt[1] ELSE a

-----------------------------------------------------------------------------
(* THREE.Vector2 and THREE.Vector3 as tuples of doubles.                   *)

\* The doubles 0, 1, -1 and 2.
Zero == DblZero(FALSE)

One == DblFin(FALSE, Pow52, -52)

MinusOne == DblFin(TRUE, Pow52, -52)

Two == DblFin(FALSE, Pow52, -51)

Vec == Seq(Dbl)

V2(p) == <<DblInt[p[1]], DblInt[p[2]]>>

V3(p) == <<DblInt[p[1]], DblInt[p[2]], DblInt[p[3]]>>

\* Math.pow(x, 2)
Pow2[x \in Dbl] == DblMul[x, x]

\* subVectors, addVectors, multiplyScalar, length and normalize of Vector2.
Sub2[a \in Vec, b \in Vec] == <<DblSub[a[1], b[1]], DblSub[a[2], b[2]]>>

Add2[a \in Vec, b \in Vec] == <<DblAdd[a[1], b[1]], DblAdd[a[2], b[2]]>>

Scale2[a \in Vec, s \in Dbl] == <<DblMul[a[1], s], DblMul[a[2], s]>>

Length2[a \in Vec] == DblSqrt[DblAdd[DblMul[a[1], a[1]], DblMul[a[2], a[2]]]]

\* normalize() is divideScalar(length() || 1), and divideScalar(s) is
\* multiplyScalar(1 / s).
Normalize2[a \in Vec] == Scale2[a, DblDiv[One, DblOr1[Length2[a]]]]

\* The same of Vector3, with dot and crossVectors.
Sub3[a \in Vec, b \in Vec] == <<DblSub[a[1], b[1]], DblSub[a[2], b[2]], DblSub[a[3], b[3]]>>

Scale3[a \in Vec, s \in Dbl] == <<DblMul[a[1], s], DblMul[a[2], s], DblMul[a[3], s]>>

Dot3[a \in Vec, b \in Vec] ==
    DblAdd[DblAdd[DblMul[a[1], b[1]], DblMul[a[2], b[2]]], DblMul[a[3], b[3]]]

Length3[a \in Vec] == DblSqrt[Dot3[a, a]]

Normalize3[a \in Vec] == Scale3[a, DblDiv[One, DblOr1[Length3[a]]]]

Cross3[a \in Vec, b \in Vec] ==
    <<DblSub[DblMul[a[2], b[3]], DblMul[a[3], b[2]]],
      DblSub[DblMul[a[3], b[1]], DblMul[a[1], b[3]]],
      DblSub[DblMul[a[1], b[2]], DblMul[a[2], b[1]]]>>

\* a.addScaledVector(v, s)
AddScaled3[a \in Vec, v \in Vec, s \in Dbl] ==
    <<DblAdd[a[1], DblMul[v[1], s]], DblAdd[a[2], DblMul[v[2], s]],
      DblAdd[a[3], DblMul[v[3], s]]>>

\* new THREE.Vector3(0, 1, 0)
Up == <<Zero, One, Zero>>

\* new THREE.Vector3()
Origin3 == <<Zero, Zero, Zero>>

-----------------------------------------------------------------------------
(* State.                                                                  *)

VARIABLES
    gState,      \* Ground: "none" before the constructor, "ok" once it has
                 \* returned, "hang" when its vertex loop never ends
    size,        \* Ground: the constructor's size argument
    segments,    \* Ground.segments
    gVertices,   \* Ground.vertices, one <<x, y, z>> of doubles per vertex
    gIndices,    \* the index buffer handed to geometry.setIndex
    nReshape,    \* the number of reshapeGround calls made
    reshapePlane,    \* reshapeGround's plane in the last call
    rayHits,         \* what ray.intersectPlane returned per screen sample in
                     \* the last call: a point, or NONE
    silhouetteCurve, \* reshapeGround's silhouetteCurve in the last call
    gError,      \* "none", or the exception the last reshapeGround call threw
    hArgs,       \* computeH on its own: the arguments
    hDone,       \* computeH on its own: whether it has been applied
    hResult,     \* computeH on its own: what it returned
    bState,      \* Billboard: "none" before the constructor, "ok" after it
    strokeWidth, \* Billboard.strokeWidth
    worldOrigin, \* Billboard.worldOrigin
    screenPath,  \* Billboard.screenPath, the accepted points <<x, y>>
    bVertices,   \* Billboard.vertices, one <<x, y, z>> of doubles per vertex
    bIndices,    \* Billboard.indices
    position,    \* Object3D.position of the billboard
    rotation,    \* Object3D.rotation of the billboard, <<how it was set, argument>>
    meshMatrix,  \* Billboard.mesh.matrix, <<how it was set, argument>>
    nProject,    \* the number of projectTo* calls made
    guardTaken,  \* whether a projectTo* call ever returned at its
                 \* `vertices.length < 3` guard
    lastCall     \* the last addNewPoint call: its point and whether the
                 \* distance test let it in

groundVars ==
    <<gState, size, segments, gVertices, gIndices, nReshape, reshapePlane,
      rayHits, silhouetteCurve, gError>>

hVars == <<hArgs, hDone, hResult>>

ribbonVars == <<screenPath, bVertices, bIndices>>

billboardVars ==
    <<bState, strokeWidth, worldOrigin, ribbonVars, position, rotation,
      meshMatrix, nProject, guardTaken, lastCall>>

vars == <<groundVars, hVars, billboardVars>>

-----------------------------------------------------------------------------
(* Ground: constructor.                                                    *)

\* The values a loop `for (i = lo; i <= hi; i += inc)` visits, from i on;
\* acc holds the values visited before.  When the loop variable does not
\* grow the condition stays true for ever: hang.
LoopValues[i \in Dbl, inc \in Dbl, hi \in Dbl, acc \in Seq(Dbl)] ==
    IF ~DblLeq[i, hi] THEN [hang |-> FALSE, vals |-> acc]
    ELSE IF DblLeq[DblAdd[i, inc], i] THEN [hang |-> TRUE, vals |-> Append(acc, i)]
    ELSE LoopValues[DblAdd[i, inc], inc, hi, Append(acc, i)]

convertRowColToIndex(row, col, segs) == row * (segs + 1) + col

\* What a vertex loop amounts to: the values its variable takes, or that it
\* never ends.
AxisT == [hang : BOOLEAN, vals : Seq(Dbl)]

\* The vertices pushed when both loops run over the values of axis, the
\* outer one giving x and the inner one z.
Grid[axis \in AxisT] ==
    [hang  |-> axis.hang,
     verts |-> [n \in 1 .. Len(axis.vals) * Len(axis.vals) |->
                   <<axis.vals[((n - 1) \div Len(axis.vals)) + 1], Zero,
                     axis.vals[((n - 1) % Len(axis.vals)) + 1]>>]]

\* The vertex loops: from -size/2 to size/2 by size / segments.
GroundVertices(sz, segs) ==
    Grid[LoopValues[DblDiv[DblNeg[DblInt[sz]], Two], DblDiv[DblInt[sz], DblInt[segs]],
                    DblDiv[DblInt[sz], Two], <<>>]]

\* The row and column offsets of the six indices pushed per grid cell.
CellCorners == <<<<0, 0>>, <<0, 1>>, <<1, 0>>, <<1, 0>>, <<0, 1>>, <<1, 1>>>>

\* The index loops.
GroundIndices(segs) ==
    IF segs <= 0 THEN <<>>
    ELSE [p \in 1 .. 6 * segs * segs |->
             LET cell == (p - 1) \div 6
                 i    == cell \div segs
                 j    == cell % segs
                 c    == CellCorners[((p - 1) % 6) + 1]
             IN  convertRowColToIndex(i + c[1], j + c[2], segs)]

ConstructGround(sz, segs) ==
    /\ gState = "none"
    /\ \E v \in {GroundVertices(sz, segs)} :
          /\ gState' = IF v.hang THEN "hang" ELSE "ok"
          /\ gVertices' = IF v.hang THEN <<>> ELSE v.verts
          /\ gIndices' = IF v.hang THEN <<>> ELSE GroundIndices(segs)
    /\ size' = sz
    /\ segments' = segs
    /\ UNCHANGED <<nReshape, reshapePlane, rayHits, silhouetteCurve, gError>>
    /\ UNCHANGED <<hVars, billboardVars>>

-----------------------------------------------------------------------------
(* THREE.Plane, and Ground: computeH.                                      *)

\* The null that three.js returns when there is no intersection: as a
\* distance, and as a point.
Null == [k |-> "null", neg |-> FALSE, m |-> <<>>, e |-> 0]

NONE == <<Null>>

PlaneT == [normal : Vec, constant : Dbl]

Plane(normal, constant) == [normal |-> normal, constant |-> constant]

\* Plane.setFromNormalAndCoplanarPoint
SetFromNormalAndCoplanarPoint(normal, point) == Plane(normal, DblNeg[Dot3[point, normal]])

\* Plane.distanceToPoint
DistanceToPoint[plane \in PlaneT, point \in Vec] ==
    DblAdd[Dot3[plane.normal, point], plane.constant]

\* Plane.projectPoint
ProjectPoint[plane \in PlaneT, point \in Vec] ==
    AddScaled3[point, plane.normal, DblNeg[DistanceToPoint[plane, point]]]

\* A bracketing test that forgets its lower bound.
BracketsUpperOnly(lo, x, hi) == DblLeq[x, hi]

\* The bracketing tests of the segment scan: lo <= x && x <= hi.
Brackets(lo, x, hi) == DblLeq[lo, x] /\ DblLeq[x, hi]

\* The plane-space x of point p: subVectors(p, origin).dot(planeX).
LocalX[p \in Vec, origin \in Vec, planeX \in Vec] == Dot3[Sub3[p, origin], planeX]

\* alpha = (xTarget - xa) / (xb - xa)
Alpha[xa \in Dbl, xb \in Dbl, xTarget \in Dbl] == DblDiv[DblSub[xTarget, xa], DblSub[xb, xa]]

\* yCurve - closestPoint.y for the segment from a to b, with
\* yCurve = a.y + alpha * (b.y - a.y).
Interpolate[a \in Vec, b \in Vec, alpha \in Dbl, cpY \in Dbl] ==
    DblSub[DblAdd[a[2], DblMul[alpha, DblSub[b[2], a[2]]]], cpY]

\* The loop of computeH from segment i on: xs[i] is the plane-space x of
\* curve point i.  The segment is taken from its start to its end when the
\* first test holds, and from its end to its start when the second does.
ScanSegments[i \in Nat, curve \in Seq(Vec), xs \in Seq(Dbl), xTarget \in Dbl, cpY \in Dbl] ==
    IF i > Len(curve) THEN Zero
    ELSE IF Brackets(xs[i - 1], xTarget, xs[i])
    THEN Interpolate[curve[i - 1], curve[i], Alpha[xs[i - 1], xs[i], xTarget], cpY]
    ELSE IF Brackets(xs[i], xTarget, xs[i - 1])
    THEN Interpolate[curve[i], curve[i - 1], Alpha[xs[i], xs[i - 1], xTarget], cpY]
    ELSE ScanSegments[i + 1, curve, xs, xTarget, cpY]

\* computeH for a curve of at least one point, with planeX computed.
HeightUnder[closestPoint \in Vec, curve \in Seq(Vec), planeX \in Vec] ==
    ScanSegments[2, curve,
                 Digits([i \in 1 .. Len(curve) |-> LocalX[curve[i], curve[1], planeX]]),
                 LocalX[closestPoint, curve[1], planeX], closestPoint[2]]

\* planeX: crossVectors(planeY, projectionPlane.normal), normalized.
PlaneX[normal \in Vec] == Normalize3[Cross3[Up, normal]]

\* What a call of computeH comes to: a number, or a TypeError.
HeightT == [throws : BOOLEAN, h : Dbl]

\* With an empty curve, origin is undefined and
\* subVectors(closestPoint, origin) throws a TypeError.
computeH(closestPoint, curve, normal) ==
    IF Len(curve) = 0 THEN [throws |-> TRUE, h |-> Zero]
    ELSE [throws |-> FALSE, h |-> HeightUnder[closestPoint, curve, PlaneX[normal]]]

-----------------------------------------------------------------------------
(* Ground: reshapeGround.                                                  *)

\* The influence radius: Math.pow(d / 5, 2).
R == 5

\* w = Math.max(0, 1 - Math.pow(d / R, 2))
Weight[d \in Dbl] == DblMax0[DblSub[One, Pow2[DblDiv[d, DblInt[R]]]]]

\* The new height (1 - w) * y + w * h.
Blend[w \in Dbl, y \in Dbl, h \in Dbl] == DblAdd[DblMul[DblSub[One, w], y], DblMul[w, h]]

\* Step 1: the plane through groundStartPoint whose normal is the
\* normalized cross product of the stroke and the up vector.
StrokePlane(groundStartPoint, groundEndPoint) ==
    SetFromNormalAndCoplanarPoint(
        Normalize3[Cross3[Sub3[groundEndPoint, groundStartPoint], Up]], groundStartPoint)

\* The first loop: one curve point per screen sample; a ray that misses
\* the plane leaves `intersection` as constructed, (0, 0, 0).
BuildSilhouette(hits) ==
    Digits([i \in 1 .. Len(hits) |-> IF hits[i] = NONE THEN Origin3 ELSE hits[i]])

\* The store of the second loop for vertex v at distance d, when computeH
\* gave r: `if (h != 0)`, which NaN passes.
Store[v \in Vec, d \in Dbl, r \in HeightT] ==
    [throws |-> r.throws,
     v |-> IF ~DblEq[r.h, Zero] THEN <<v[1], Blend[Weight[d], v[2], r.h], v[3]>> ELSE v]

\* One vertex of the second loop.
ReshapeVertex(v, plane, curve) ==
    Store[v, DistanceToPoint[plane, v], computeH(ProjectPoint[plane, v], curve, plane.normal)]

\* Model bounds and input sets.
MaxReshape == 1

MaxHits == 2

GroundPts == {V3(<<0, 0, 0>>), V3(<<0, 0, 4>>), V3(<<4, 0, 4>>)}

CurvePts == {V3(<<0, 0, 0>>), V3(<<0, 3, 0>>), V3(<<0, 0, 4>>), V3(<<0, 3, 4>>), V3(<<4, 0, 4>>)}

SeqsUpTo(S, n) == UNION {[1 .. m -> S] : m \in 0 .. n}

\* What ray.intersectPlane can return for a sample: a point of the plane,
\* or nothing.  On the degenerate plane (zero normal, constant 0) every ray
\* is "coplanar" and the result is the ray's origin, never nothing.
RayResults(plane) ==
    {p \in CurvePts : IsZero(DistanceToPoint[plane, p])}
        \cup (IF \A i \in 1 .. 3 : IsZero(plane.normal[i]) THEN {} ELSE {NONE})

\* reshapeGround(screenPath, groundStartPoint, groundEndPoint, camera); the
\* screen samples and the camera enter through `hits`, the results of the
\* ray casts.
reshapeGround(hits, groundStartPoint, groundEndPoint) ==
    /\ gState = "ok"
    /\ nReshape < MaxReshape
    /\ \E plane \in {StrokePlane(groundStartPoint, groundEndPoint)},
          curve \in {BuildSilhouette(hits)} :
          \E res \in {Digits([n \in 1 .. Len(gVertices) |->
                                 ReshapeVertex(gVertices[n], plane, curve)])} :
             /\ reshapePlane' = plane
             /\ silhouetteCurve' = curve
             /\ gError' = IF \E n \in 1 .. Len(res) : res[n].throws THEN "TypeError"
                          ELSE "none"
             /\ gVertices' = IF \E n \in 1 .. Len(res) : res[n].throws THEN gVertices
                             ELSE Digits([n \in 1 .. Len(res) |-> res[n].v])
    /\ nReshape' = nReshape + 1
    /\ rayHits' = hits
    /\ UNCHANGED <<gState, size, segments, gIndices>>
    /\ UNCHANGED <<hVars, billboardVars>>

Sizes == {-4, 0, 7, 12}

Segments == {-1, 0, 2, 3}

GroundInit ==
    /\ gState = "none"
    /\ size = 0
    /\ segments = 0
    /\ gVertices = <<>>
    /\ gIndices = <<>>
    /\ nReshape = 0
    /\ reshapePlane = Plane(Origin3, Zero)
    /\ rayHits = <<>>
    /\ silhouetteCurve = <<>>
    /\ gError = "none"

HIdle ==
    /\ hArgs = [closestPoint |-> Origin3, curve |-> <<>>, normal |-> Origin3]
    /\ hDone = TRUE
    /\ hResult = [throws |-> FALSE, h |-> Zero]

GroundNext ==
    \/ \E sz \in Sizes, segs \in Segments : ConstructGround(sz, segs)
    \/ \E s \in GroundPts, e \in GroundPts :
          \E hits \in SeqsUpTo(RayResults(StrokePlane(s, e)), MaxHits) :
              reshapeGround(hits, s, e)

-----------------------------------------------------------------------------
(* computeH on its own: the arguments are drawn at the start and computeH  *)
(* is applied to them.                                                     *)

MaxCurve == 3

HArgsT == [closestPoint : Vec, curve : Seq(Vec), normal : Vec]

HPoints == {V3(<<0, 0, 0>>), V3(<<2, 2, 0>>), V3(<<1, 0, 0>>), V3(<<2, 0, 0>>)}

HClosest == {V3(<<x, y, 0>>) : x \in -1 .. 3, y \in {0, 1}}

HNormals == {V3(<<0, 0, 1>>), V3(<<0, 0, -1>>), V3(<<1, 0, 0>>)}

ApplyComputeH ==
    /\ ~hDone
    /\ hDone' = TRUE
    /\ hResult' = computeH(hArgs.closestPoint, hArgs.curve, hArgs.normal)
    /\ UNCHANGED hArgs
    /\ UNCHANGED <<groundVars, billboardVars>>

-----------------------------------------------------------------------------
(* Billboard: constructor and addNewPoint.                                 *)

\* The z of a vertex drawn on the near plane, the double -0.999.
NearZ == DblFin(TRUE, <<1835, 12845, 24379, 255>>, -53)

\* Math.cos(Math.PI / 2), the double 6.123233995736766e-17, and
\* Math.sin(Math.PI / 2), the double 1.
CosHalfPi == DblFin(FALSE, <<23559, 26152, 6296, 141>>, -106)

SinHalfPi == One

\* The rotation of rotateAround, of (x, y) = v - center.
Rotate[x \in Dbl, y \in Dbl, center \in Vec] ==
    <<DblAdd[DblSub[DblMul[x, CosHalfPi], DblMul[y, SinHalfPi]], center[1]],
      DblAdd[DblAdd[DblMul[x, SinHalfPi], DblMul[y, CosHalfPi]], center[2]]>>

\* Vector2.rotateAround(center, angle) for the angle Math.PI / 2.
RotateAround[v \in Vec, center \in Vec] ==
    Rotate[DblSub[v[1], center[1]], DblSub[v[2], center[2]], center]

Last(q) == q[Len(q)]

\* A vertex of the ribbon as the constructor and addNewPoint push it.
OnNearPlane[p \in Vec] == <<p[1], p[2], NearZ>>

ConstructBillboard(deviceCoords, origin, width) ==
    /\ bState = "none"
    /\ bState' = "ok"
    /\ strokeWidth' = width
    /\ worldOrigin' = V3(origin)
    /\ screenPath' = <<V2(deviceCoords)>>
    /\ bVertices' = <<OnNearPlane[V2(deviceCoords)], OnNearPlane[V2(deviceCoords)]>>
    /\ bIndices' = <<>>
    /\ UNCHANGED <<position, rotation, meshMatrix, nProject, guardTaken, lastCall>>
    /\ UNCHANGED <<groundVars, hVars>>

\* A distance test with >= in place of >.
AcceptsAtBoundary(newPoint, endPoint, width) ==
    DblLeq[DblDiv[DblInt[width], Two], Length2[Sub2[newPoint, endPoint]]]

\* newPoint.distanceTo(endPoint) > this.strokeWidth / 2
Accepts(newPoint, endPoint, width) ==
    DblLess[DblDiv[DblInt[width], Two], Length2[Sub2[newPoint, endPoint]]]

\* subVectors, normalize, rotateAround by Math.PI / 2 about the origin,
\* multiplyScalar by strokeWidth / 2.
StrokeVector(newPoint, endPoint, width) ==
    Scale2[RotateAround[Normalize2[Sub2[newPoint, endPoint]], <<Zero, Zero>>],
           DblDiv[DblInt[width], Two]]

\* The two vertices pushed for an accepted point.
NewVertices(newPoint, strokeVector) ==
    <<OnNearPlane[Sub2[newPoint, strokeVector]], OnNearPlane[Add2[newPoint, strokeVector]]>>

\* Triangles counted from a one-based nextIndex.
NewIndicesOneBased(nextIndex) ==
    <<nextIndex + 1, nextIndex + 2, nextIndex - 1, nextIndex, nextIndex - 1, nextIndex + 2>>

\* The two triangles pushed for an accepted point.
NewIndices(nextIndex) ==
    <<nextIndex, nextIndex + 1, nextIndex - 2, nextIndex - 1, nextIndex - 2, nextIndex + 1>>

MaxPath == 3

addNewPoint(deviceCoords) ==
    /\ bState = "ok"
    /\ \E newPoint \in {V2(deviceCoords)} :
          \E accepted \in {Accepts(newPoint, Last(screenPath), strokeWidth)} :
             /\ lastCall' = [point |-> newPoint, accepted |-> accepted]
             /\ IF accepted
                THEN /\ Len(screenPath) < MaxPath
                     /\ \E strokeVector \in
                              {StrokeVector(newPoint, Last(screenPath), strokeWidth)} :
                           bVertices' = bVertices \o NewVertices(newPoint, strokeVector)
                     /\ bIndices' = bIndices \o NewIndices(Len(bVertices))
                     /\ screenPath' = Append(screenPath, newPoint)
                ELSE UNCHANGED ribbonVars
    /\ UNCHANGED <<bState, strokeWidth, worldOrigin, position, rotation,
                   meshMatrix, nProject, guardTaken>>
    /\ UNCHANGED <<groundVars, hVars>>

-----------------------------------------------------------------------------
(* THREE.Ray, and Billboard: the projections.  The camera is modelled as   *)
(* an unrotated orthographic camera of unit extents: the ray of            *)
(* setFromCamera for device coordinates (x, y) then starts at              *)
(* camera.position + (x, y, 0) and points along (0, 0, -1), which is also  *)
(* the projection plane's normal.                                          *)

RayT == [origin : Vec, direction : Vec]

Ray(origin, direction) == [origin |-> origin, direction |-> direction]

LookDirection == <<Zero, Zero, MinusOne>>

\* Raycaster.setFromCamera
SetFromCamera(x, y, camera) ==
    Ray(<<DblAdd[x, camera[1]], DblAdd[y, camera[2]], camera[3]>>, LookDirection)

\* Ray.at
RayAt[ray \in RayT, t \in Dbl] == AddScaled3[ray.origin, ray.direction, t]

\* `return t >= 0 ? t : null`
NonNegative[t \in Dbl] == IF DblLeq[Zero, t] THEN t ELSE Null

\* Ray.distanceToPlane for denominator = plane.normal.dot(ray.direction).
DistanceAlong[ray \in RayT, plane \in PlaneT, denominator \in Dbl] ==
    IF IsZero(denominator)
    THEN (IF IsZero(DistanceToPoint[plane, ray.origin]) THEN Zero ELSE Null)
    ELSE NonNegative[DblNeg[DblDiv[DblAdd[Dot3[ray.origin, plane.normal], plane.constant],
                                   denominator]]]

\* Ray.distanceToPlane
DistanceToPlane[ray \in RayT, plane \in PlaneT] ==
    DistanceAlong[ray, plane, Dot3[plane.normal, ray.direction]]

\* The point of the ray at distance t, or nothing when t is null.
PointAt[ray \in RayT, t \in Dbl \cup {Null}] == IF t = Null THEN NONE ELSE RayAt[ray, t]

\* Ray.intersectPlane
IntersectPlane[ray \in RayT, plane \in PlaneT] == PointAt[ray, DistanceToPlane[ray, plane]]

SkyRadius == 495

\* Ray.intersectSphere from the two crossings t0 <= t1 on.
SphereEnds[ray \in RayT, t0 \in Dbl, t1 \in Dbl] ==
    IF DblLess[t1, Zero] THEN NONE
    ELSE IF DblLess[t0, Zero] THEN RayAt[ray, t1]
    ELSE RayAt[ray, t0]

\* Ray.intersectSphere from thc = Math.sqrt(radius2 - d2) on.
SphereChord[ray \in RayT, tca \in Dbl, thc \in Dbl] ==
    SphereEnds[ray, DblSub[tca, thc], DblAdd[tca, thc]]

\* Ray.intersectSphere from d2 = v.dot(v) - tca * tca on.
SphereNear[ray \in RayT, tca \in Dbl, d2 \in Dbl, radius2 \in Dbl] ==
    IF DblLess[radius2, d2] THEN NONE
    ELSE SphereChord[ray, tca, DblSqrt[DblSub[radius2, d2]]]

\* Ray.intersectSphere from tca = v.dot(ray.direction) on.
SphereAlong[ray \in RayT, v \in Vec, tca \in Dbl, radius \in Dbl] ==
    SphereNear[ray, tca, DblSub[Dot3[v, v], DblMul[tca, tca]], DblMul[radius, radius]]

\* Ray.intersectSphere from v = center - ray.origin on.
SphereFrom[ray \in RayT, v \in Vec, radius \in Dbl] ==
    SphereAlong[ray, v, Dot3[v, ray.direction], radius]

\* Ray.intersectSphere
IntersectSphere[ray \in RayT, center \in Vec, radius \in Dbl] ==
    SphereFrom[ray, Sub3[center, ray.origin], radius]

\* `new THREE.Vector3()` left as it is when the ray misses.
OrZero[hit \in Seq(Dbl \cup {Null})] == IF hit = NONE THEN Origin3 ELSE hit

\* A projection loop that rebuilds the buffer and starts at the second vertex.
OverwriteFromSecond(verts, points) ==
    Digits([i \in 1 .. Len(verts) - 1 |-> points[i + 1]])

\* The stores of the projection loops: vertex i is overwritten in place
\* with the point computed for it.
OverwriteVertices(verts, points) ==
    Digits([i \in 1 .. Len(verts) |-> points[i]])

MaxProject == 2

projectToNearPlane(camera) ==
    /\ bState = "ok"
    /\ nProject < MaxProject
    /\ nProject' = nProject + 1
    /\ meshMatrix' = <<"projectionMatrixInverse", camera>>
    /\ position' = V3(camera)
    /\ rotation' = <<"camera", camera>>
    /\ UNCHANGED <<bState, strokeWidth, worldOrigin, ribbonVars, guardTaken, lastCall>>
    /\ UNCHANGED <<groundVars, hVars>>

\* The point of the projection plane under vertex v, as seen from the
\* camera at cameraPosition, relative to pos.
OntoPlane[v \in Vec, cameraPosition \in Vec, plane \in PlaneT, pos \in Vec] ==
    Sub3[OrZero[IntersectPlane[SetFromCamera(v[1], v[2], cameraPosition), plane]], pos]

\* The same on the sky sphere.
OntoSky[v \in Vec, cameraPosition \in Vec, pos \in Vec] ==
    Sub3[OrZero[IntersectSphere[SetFromCamera(v[1], v[2], cameraPosition), Origin3,
                                DblInt[SkyRadius]]],
         pos]

projectToWorld(camera) ==
    /\ bState = "ok"
    /\ nProject < MaxProject
    /\ nProject' = nProject + 1
    /\ IF Len(bVertices) * 3 < 3
       THEN /\ guardTaken' = TRUE
            /\ UNCHANGED <<ribbonVars, position, rotation, meshMatrix>>
       ELSE \E projectionPlane \in {SetFromNormalAndCoplanarPoint(LookDirection, worldOrigin)},
               cameraPosition \in {V3(camera)} :
               /\ position' = worldOrigin
               /\ rotation' = <<"lookAt", <<camera[1], 0, camera[3]>>>>
               /\ meshMatrix' = <<"inverseRotation", <<camera[1], 0, camera[3]>>>>
               /\ bVertices' = OverwriteVertices(bVertices,
                      [i \in 1 .. Len(bVertices) |->
                          OntoPlane[bVertices[i], cameraPosition, projectionPlane, worldOrigin]])
               /\ UNCHANGED <<screenPath, bIndices, guardTaken>>
    /\ UNCHANGED <<bState, strokeWidth, worldOrigin, lastCall>>
    /\ UNCHANGED <<groundVars, hVars>>

\* The target billboard is unrotated at targetPosition: worldToLocal
\* subtracts its position.
projectToBillboard(targetPosition, camera) ==
    /\ bState = "ok"
    /\ nProject < MaxProject
    /\ nProject' = nProject + 1
    /\ IF Len(bVertices) * 3 < 3
       THEN /\ guardTaken' = TRUE
            /\ UNCHANGED <<ribbonVars, position, rotation, meshMatrix>>
       ELSE \E projectionPlane \in {SetFromNormalAndCoplanarPoint(LookDirection, worldOrigin)},
               cameraPosition \in {V3(camera)}, target \in {V3(targetPosition)} :
               /\ position' = Origin3
               /\ rotation' = <<"euler", <<0, 0, 0>>>>
               /\ meshMatrix' = <<"identity", <<0, 0, 0>>>>
               /\ bVertices' = OverwriteVertices(bVertices,
                      [i \in 1 .. Len(bVertices) |->
                          OntoPlane[bVertices[i], cameraPosition, projectionPlane, target]])
               /\ UNCHANGED <<screenPath, bIndices, guardTaken>>
    /\ UNCHANGED <<bState, strokeWidth, worldOrigin, lastCall>>
    /\ UNCHANGED <<groundVars, hVars>>

\* The sky mesh is unrotated at skyPosition.
projectToSky(camera, skyPosition) ==
    /\ bState = "ok"
    /\ nProject < MaxProject
    /\ nProject' = nProject + 1
    /\ \E cameraPosition \in {V3(camera)}, sky \in {V3(skyPosition)} :
          bVertices' = OverwriteVertices(bVertices,
              [i \in 1 .. Len(bVertices) |-> OntoSky[bVertices[i], cameraPosition, sky]])
    /\ position' = Origin3
    /\ rotation' = <<"euler", <<0, 0, 0>>>>
    /\ meshMatrix' = <<"identity", <<0, 0, 0>>>>
    /\ UNCHANGED <<bState, strokeWidth, worldOrigin, screenPath, bIndices,
                   guardTaken, lastCall>>
    /\ UNCHANGED <<groundVars, hVars>>

-----------------------------------------------------------------------------
(* Specifications.                                                         *)

BillboardInit ==
    /\ bState = "none"
    /\ strokeWidth = 0
    /\ worldOrigin = Origin3
    /\ screenPath = <<>>
    /\ bVertices = <<>>
    /\ bIndices = <<>>
    /\ position = Origin3
    /\ rotation = <<"euler", <<0, 0, 0>>>>
    /\ meshMatrix = <<"identity", <<0, 0, 0>>>>
    /\ nProject = 0
    /\ guardTaken = FALSE
    /\ lastCall = [point |-> <<Zero, Zero>>, accepted |-> FALSE]

\* Device coordinates offered to the constructor and to addNewPoint.
DevicePoints == {<<x, y>> : x \in {0, 10, 12}, y \in {0, 16}}

StrokeWidths == {20, 0, -20}

WorldOrigins == {<<0, 0, 0>>}

Cameras == {<<0, 0, 5>>, <<600, 0, -5>>}

Targets == {<<1, 0, 0>>}

InitNone == GroundInit /\ HIdle /\ BillboardInit

SpecGround == InitNone /\ [][GroundNext]_vars

InitComputeH ==
    /\ GroundInit
    /\ BillboardInit
    /\ hArgs \in [closestPoint : HClosest, curve : SeqsUpTo(HPoints, MaxCurve),
                  normal : HNormals]
    /\ hDone = FALSE
    /\ hResult = [throws |-> FALSE, h |-> Zero]

SpecComputeH == InitComputeH /\ [][ApplyComputeH]_vars

\* The two constructors.
ConstructNext ==
    \/ \E sz \in Sizes, segs \in Segments : ConstructGround(sz, segs)
    \/ \E p \in DevicePoints, o \in WorldOrigins, w \in StrokeWidths :
          ConstructBillboard(p, o, w)

SpecConstruct == InitNone /\ [][ConstructNext]_vars

\* A billboard and its addNewPoint calls.
RibbonNext ==
    \/ \E p \in DevicePoints, o \in WorldOrigins, w \in StrokeWidths :
          ConstructBillboard(p, o, w)
    \/ \E p \in DevicePoints : addNewPoint(p)

SpecRibbon == InitNone /\ [][RibbonNext]_vars

\* A billboard under all of its operations, its points drawn from a
\* diagonal and a horizontal segment of the device points.
StrokePoints == {<<0, 0>>, <<12, 16>>, <<12, 0>>}

ProjectedWidths == {20, -20}

BillboardNext ==
    \/ \E p \in StrokePoints, o \in WorldOrigins, w \in ProjectedWidths :
          ConstructBillboard(p, o, w)
    \/ \E p \in StrokePoints : addNewPoint(p)
    \/ \E c \in Cameras : projectToNearPlane(c)
    \/ \E c \in Cameras : projectToWorld(c)
    \/ \E c \in Cameras, t \in Targets : projectToBillboard(t, c)
    \/ \E c \in Cameras, t \in Targets : projectToSky(c, t)

SpecBillboard == InitNone /\ [][BillboardNext]_vars


-----------------------------------------------------------------------------
(* Properties.                                                             *)

\* The integer that an integer-valued double of small magnitude stands for.
RECURSIVE BigToInt(_)
BigToInt(a) == IF a = <<>> THEN 0 ELSE a[1] + Base * BigToInt(Tail(a))

DblToInt(a) ==
    IF IsZero(a) THEN 0
    ELSE (IF a.neg THEN -1 ELSE 1) * BigToInt(BigShr[a.m, 0 - a.e])

\* Twice the signed area of the triangle of a, b and c, on their x and y:
\* the cross product of its two edges from a.
Cross2[a \in Vec, b \in Vec, c \in Vec] ==
    DblSub[DblMul[DblSub[b[1], a[1]], DblSub[c[2], a[2]]],
           DblMul[DblSub[b[2], a[2]], DblSub[c[1], a[1]]]]

\* -1, 0 or 1 as the double is negative, zero or positive.
Sign[a \in Dbl] == IF IsZero(a) THEN 0 ELSE IF a.neg THEN -1 ELSE 1

\* The orientation of triangle t (1-based) of the ribbon.
TriangleSign(t) ==
    Sign[Cross2[bVertices[bIndices[3 * t - 2] + 1], bVertices[bIndices[3 * t - 1] + 1],
                bVertices[bIndices[3 * t] + 1]]]

\* The orientations of all triangles of the ribbon.
TriangleSigns == {TriangleSign(t) : t \in 1 .. (Len(bIndices) \div 3)}

\* The plane-space x of computeH's closestPoint and of its curve's points,
\* for a curve of at least one point.
HLocal[args \in HArgsT, planeX \in Vec] ==
    [target |-> LocalX[args.closestPoint, args.curve[1], planeX],
     curve  |-> Digits([i \in 1 .. Len(args.curve) |->
                           LocalX[args.curve[i], args.curve[1], planeX]])]

\* closestPoint's plane-space x is strictly below, or strictly above, that
\* of every point of the curve.
Outside(x) ==
    \/ \A i \in 1 .. Len(x.curve) : DblLess[x.target, x.curve[i]]
    \/ \A i \in 1 .. Len(x.curve) : DblLess[x.curve[i], x.target]

OutsideSpan ==
    \/ Len(hArgs.curve) = 0
    \/ \E x \in {HLocal[hArgs, PlaneX[hArgs.normal]]} : Outside(x)

\* C1: with n >= 2 accepted points the ribbon holds 2n vertices and 6(n-1)
\* indices, every index is in 0 .. 2n-1, and the triangles pushed for the
\* k-th accepted point refer only to the 2k vertices present at that time.
C1_RibbonCounts ==
    (bState = "ok" /\ Len(screenPath) >= 2) =>
        LET n == Len(screenPath)
        IN  /\ Len(bVertices) = 2 * n
            /\ Len(bIndices) = 6 * (n - 1)
            /\ \A j \in 1 .. Len(bIndices) :
                  /\ bIndices[j] >= 0
                  /\ bIndices[j] < 2 * n
                  /\ bIndices[j] < 2 * (((j - 1) \div 6) + 2)

\* Three points have been accepted: two addNewPoint calls pushed triangles.
C1_Witness ==
    /\ bState = "ok"
    /\ Len(screenPath) = 3
    /\ Len(bIndices) = 12

\* Four times the squared distance of the points p and q of integer
\* coordinates, in exact arithmetic.
Dist2x4(p, q) ==
    4 * ((DblToInt(p[1]) - DblToInt(q[1])) * (DblToInt(p[1]) - DblToInt(q[1]))
            + (DblToInt(p[2]) - DblToInt(q[2])) * (DblToInt(p[2]) - DblToInt(q[2])))

\* Whether point p is within width / 2 of point q, boundary included.
Near(p, q, width) == width >= 0 /\ Dist2x4(p, q) <= width * width

\* C2: an addNewPoint call whose point is within strokeWidth / 2 of the
\* last accepted point (boundary included) leaves vertices, indices and
\* screenPath as they were; a point strictly farther is appended, with two
\* vertices and two triangles.
C2_RejectIsNoOp ==
    [][bState = "ok" =>
          IF Near(lastCall'.point, Last(screenPath), strokeWidth)
          THEN /\ bVertices' = bVertices
               /\ bIndices' = bIndices
               /\ screenPath' = screenPath
          ELSE /\ screenPath' = Append(screenPath, lastCall'.point)
               /\ Len(bVertices') = Len(bVertices) + 2
               /\ Len(bIndices') = Len(bIndices) + 6]_vars

\* A point at exactly strokeWidth / 2 from the last accepted point has
\* been offered to a ribbon of two accepted points, and was turned down.
C2_Witness ==
    /\ bState = "ok"
    /\ strokeWidth > 0
    /\ Len(screenPath) = 2
    /\ ~lastCall.accepted
    /\ Dist2x4(lastCall.point, Last(screenPath)) = strokeWidth * strokeWidth
    /\ Len(bVertices) = 4

\* C3: a Ground built with segments >= 1 and size > 0 has (segments+1)^2
\* vertices and 6 * segments^2 indices, each index that of a vertex built.
C3_GridCounts ==
    (gState # "none" /\ size > 0 /\ segments >= 1) =>
        /\ gState = "ok"
        /\ Len(gVertices) = (segments + 1) * (segments + 1)
        /\ Len(gIndices) = 6 * segments * segments
        /\ \A j \in 1 .. Len(gIndices) : gIndices[j] >= 0 /\ gIndices[j] < Len(gVertices)

\* C4: when a sample's ray misses the plane, reshapeGround (here of a
\* Ground of valid size and segments) either leaves the sample out of the
\* silhouette curve or throws with the vertices as they were.
C4_NoPlaceholder ==
    [][(nReshape' = nReshape + 1 /\ size > 0 /\ segments >= 1
          /\ \E i \in 1 .. Len(rayHits') : rayHits'[i] = NONE) =>
          \/ Len(silhouetteCurve') =
                Cardinality({i \in 1 .. Len(rayHits') : rayHits'[i] # NONE})
          \/ gError' # "none" /\ gVertices' = gVertices]_vars

\* C5: only a valid configuration yields an object: a constructed Ground
\* has size > 0 and segments > 0, and a constructed Billboard has
\* strokeWidth > 0.
C5_FailFast ==
    /\ gState = "ok" => size > 0 /\ segments > 0
    /\ bState = "ok" => strokeWidth > 0

\* C6, as claimed: for every curve, the empty one included, computeH
\* returns 0 when closestPoint lies strictly outside the curve's span.
C6_ZeroOutsideSpan_AnyCurve ==
    (hDone /\ OutsideSpan) => (~hResult.throws /\ IsZero(hResult.h))

\* C6, amended: for every curve of at least one point, computeH returns 0
\* when closestPoint's plane-space x lies strictly outside the span of the
\* curve's plane-space x.
C6_ZeroOutsideSpan ==
    (hDone /\ Len(hArgs.curve) >= 1 /\ OutsideSpan) =>
        (~hResult.throws /\ IsZero(hResult.h))

\* computeH has returned for a curve that folds back in x and a point
\* outside its span.
C6_Witness ==
    /\ hDone
    /\ Len(hArgs.curve) = 3
    /\ \E x \in {HLocal[hArgs, PlaneX[hArgs.normal]]} :
          /\ Outside(x)
          /\ DblLess[x.curve[1], x.curve[2]]
          /\ DblLess[x.curve[3], x.curve[2]]

\* C7: for a curve of at least two points, when closestPoint's plane-space
\* x is that of curve point n, computeH returns curve[n].y - closestPoint.y.
C7_ReproducesSamples ==
    (hDone /\ Len(hArgs.curve) >= 2) =>
        \E x \in {HLocal[hArgs, PlaneX[hArgs.normal]]} :
            \A n \in 1 .. Len(hArgs.curve) :
                DblEq[x.target, x.curve[n]] =>
                    /\ ~hResult.throws
                    /\ DblEq[hResult.h, DblSub[hArgs.curve[n][2], hArgs.closestPoint[2]]]

\* C8: reshapeGround changes no x, no z, no count and no index, and leaves
\* the height of every vertex at distance |d| >= R from the plane alone
\* (stated here for the calls in which every ray hits the plane).
C8_FarVerticesKept ==
    [][(nReshape' = nReshape + 1 /\ \A i \in 1 .. Len(rayHits') : rayHits'[i] # NONE) =>
          /\ Len(gVertices') = Len(gVertices)
          /\ gIndices' = gIndices
          /\ \A n \in 1 .. Len(gVertices) :
                /\ gVertices'[n][1] = gVertices[n][1]
                /\ gVertices'[n][3] = gVertices[n][3]
                /\ DblLeq[DblInt[R], DblAbs[DistanceToPoint[reshapePlane', gVertices[n]]]]
                      => gVertices'[n][2] = gVertices[n][2]]_vars

\* C9: on a ribbon of positive width every triangle has a nonzero area and
\* all triangles have the same orientation.
C9_ConsistentWinding ==
    (bState = "ok" /\ strokeWidth > 0) =>
        /\ 0 \notin TriangleSigns
        /\ Cardinality(TriangleSigns) <= 1

\* The shape of a constructed billboard: twice as many vertices as accepted
\* points, at least 2, and 6 indices per accepted point after the first,
\* all in range; no projection has returned at its guard.
C10_Shape ==
    bState = "ok" =>
        /\ Len(screenPath) >= 1
        /\ Len(bVertices) = 2 * Len(screenPath)
        /\ Len(bIndices) = 6 * (Len(screenPath) - 1)
        /\ \A j \in 1 .. Len(bIndices) : bIndices[j] >= 0 /\ bIndices[j] < Len(bVertices)
        /\ ~guardTaken

\* C10: under any interleaving of addNewPoint and projectTo* calls, every
\* state of a constructed billboard has the shape above, the projections'
\* guard is never taken, and no projectTo* call changes the number of
\* vertices, the index buffer or the screenPath.
C10_ProjectionsKeepShape ==
    /\ []C10_Shape
    /\ [][nProject' # nProject =>
             /\ Len(bVertices') = Len(bVertices)
             /\ bIndices' = bIndices
             /\ screenPath' = screenPath]_vars

\* Two projections have been made, and a point was accepted after one of
\* them: the first vertex is a projected one, the last is not.
C10_Witness ==
    /\ bState = "ok"
    /\ nProject = 2
    /\ Len(screenPath) = 3
    /\ bVertices[1][3] # NearZ
    /\ bVertices[Len(bVertices)][3] = NearZ

====
